---------------------------- MODULE Spec2Model ----------------------------
(***************************************************************************)
(* Render-job lifecycle of the real-estate video application: the          *)
(* Creatomate generation gateway (app/api/creatomate/generate/route.ts),   *)
(* the HeyGen generation gateway (app/api/heygen/voices/route.ts, POST),   *)
(* the Creatomate webhook receiver (app/api/creatomate/webhook/route.ts)   *)
(* and the client status poller (hooks/use-video-status.ts), all working   *)
(* on the shared `videos` table.                                           *)
(*                                                                         *)
(* Every handler is cut at the awaits where another request can touch the  *)
(* table: the gateway between its insert, each provider call and its       *)
(* final update; the webhook between its select and its update; the        *)
(* poller between the start of a fetch and the setState that follows it.   *)
(***************************************************************************)
EXTENDS Integers, Sequences, FiniteSets, TLC

\* ------------------------------------------------------------------ bounds
\* Gateway invocations (Creatomate and HeyGen together) in one behaviour,
\* and with them the rows the table can come to hold.
MaxInvocations == 2
\* Fetches of the poller that can be in flight at once.
MaxPolls == 2
\* Requests to the proxy routes in one behaviour.
MaxRequests == 2
\* Uploads of the editor form that can be in flight at once.
MaxUploads == 2
\* Submissions of the editor form that can be in flight at once.
MaxSubmissions == 2
\* Pieces (runs of text, placeholders) a template string is made of.
MaxPieces == 2

\* ------------------------------------------------------- program constants
\* generate/route.ts: const maxRetries = 3
maxRetries == 3
\* generate/route.ts: setTimeout(resolve, 500 * Math.pow(2, i - 1))
BaseDelayMs == 500
\* use-video-status.ts: setInterval(fetchStatus, 3000)
PollIntervalMs == 3000

\* ------------------------------------------------------------ JS values
\* JavaScript's undefined and null, as they travel through object spreads
\* and JSON serialisation.
Undefined == "undefined"
Null == "null"

\* The provider's render ids and result urls.
RenderIds == {"r1", "r2"}
Urls == {"u1", "u2"}
\* The provider's status vocabulary as far as the handlers distinguish it.
ProviderStatuses == {"succeeded", "failed", "rendering"}

\* An object spread {...base, ...over}: the keys of both, over's value
\* winning, an explicit undefined included.
Spread(base, over) ==
    [k \in DOMAIN base \cup DOMAIN over |->
        IF k \in DOMAIN over THEN over[k] ELSE base[k]]

\* JSON serialisation of an object on its way to the database: a property
\* whose value is undefined is dropped.
JsonObject(obj) ==
    [k \in {x \in DOMAIN obj : obj[x] # Undefined} |-> obj[k]]

\* supabase .update({col: value}): a column given as undefined is not sent
\* and so keeps its stored value.
ColumnAfterUpdate(stored, given) ==
    IF given = Undefined THEN stored ELSE given

\* ------------------------------------------------------------------ state
VARIABLES
    videos,       \* the `videos` table: row id -> row
    gw,           \* the Creatomate gateway invocation in progress / last ended
    hg,           \* the HeyGen gateway's last invocation
    wh,           \* the webhook delivery in progress / last ended
    poll,         \* the useVideoStatus hook of one component
    proxy,        \* the requests the proxy routes have answered, in order
    invocations,  \* gateway invocations started so far
    form,         \* the VideoEditor component's state and its pending work
    tm            \* a TemplateManager.applyTemplate call: arguments and result

vars == <<videos, gw, hg, wh, poll, proxy, invocations, form, tm>>

\* Row ids: the database hands out fresh ids, 1, 2, ...
NextVideoId == Cardinality(DOMAIN videos) + 1

NoError == [kind |-> "none", attempt |-> 0]
NoRender ==
    [present |-> FALSE, id |-> Undefined, url |-> Undefined,
     status |-> Undefined]
EmptyMeta == [k \in {} |-> Undefined]


\* ------------------------------------------------- Creatomate gateway
\* TemplateManager.getTemplate: the registry holds one template, "known";
\* any other name has no file and yields null.
getTemplate(templateId) ==
    IF templateId = "known" THEN "known" ELSE Null

\* The modifications sent to the provider and stored in the row: the
\* template's map applied to the data when a templateId is given, the
\* submitted map otherwise.
Modifications(variant, templateId, submitted) ==
    IF variant = "template" /\ templateId # Undefined
    THEN "applied" ELSE submitted

\* meta of the row the gateway inserts. The older copy of the route has no
\* templateId key at all.
InsertMeta_NoModifications(variant, templateId, submitted) ==
    JsonObject([template |-> "CREATOMATE_EDIT", templateId |-> templateId])
InsertMeta(variant, templateId, submitted) ==
    IF variant = "template"
    THEN JsonObject([template |-> "CREATOMATE_EDIT",
                     modifications |-> Modifications(variant, templateId, submitted),
                     templateId |-> templateId])
    ELSE JsonObject([template |-> "CREATOMATE_EDIT",
                     modifications |-> submitted])

\* The row as the database returns it from the insert.
InsertedRow_Draft(meta) ==
    [status |-> "draft", video_url |-> Null, meta |-> meta,
     heygen_video_id |-> Null]
InsertedRow(meta) ==
    [status |-> "pending", video_url |-> Null, meta |-> meta,
     heygen_video_id |-> Null]

\* The wait before attempt i (0-based) of the retry loop, in ms; none
\* before the first.
RetryDelay_Constant(i) ==
    IF i > 0 THEN BaseDelayMs ELSE 0
RetryDelay(i) ==
    IF i > 0 THEN BaseDelayMs * 2 ^ (i - 1) ELSE 0

\* What one provider call can come back as: an ok response, a response
\* below 500 that is not ok (with or without an error text in its body), a
\* 5xx response, or fetch throwing.
Outcomes == {"ok", "4xx_error", "4xx_plain", "5xx", "throw"}

\* `response` after the call: fetch throwing leaves the previous value.
ResponseAfter(response, outcome) ==
    CASE outcome = "ok" -> "ok"
      [] outcome \in {"4xx_error", "4xx_plain"} -> "4xx"
      [] outcome = "5xx" -> "5xx"
      [] OTHER -> response

\* `lastError` after the call: the loop's own catch stores what was thrown
\* inside the try, the error built for a response below 500 included; a 5xx
\* response throws nothing.
LastErrorAfter_KeepsFirst(lastError, outcome, i) ==
    IF lastError # NoError THEN lastError
    ELSE CASE outcome = "4xx_error" -> [kind |-> "provider_error", attempt |-> i + 1]
           [] outcome = "4xx_plain" -> [kind |-> "request_failed_with_status", attempt |-> i + 1]
           [] outcome = "throw" -> [kind |-> "transport", attempt |-> i + 1]
           [] OTHER -> lastError
LastErrorAfter(lastError, outcome, i) ==
    CASE outcome = "4xx_error" -> [kind |-> "provider_error", attempt |-> i + 1]
      [] outcome = "4xx_plain" -> [kind |-> "request_failed_with_status", attempt |-> i + 1]
      [] outcome = "throw" -> [kind |-> "transport", attempt |-> i + 1]
      [] OTHER -> lastError

\* Whether the for loop runs another iteration after attempt i: `break` on
\* an ok response, otherwise i++ and the test i < maxRetries.
LoopContinues_OneMore(outcome, i) ==
    outcome # "ok" /\ i < maxRetries
LoopContinues(outcome, i) ==
    outcome # "ok" /\ i + 1 < maxRetries

\* The row's status from the provider's synchronous status.
RenderStatus_AlwaysPending(status) ==
    "pending"
RenderStatus(status) ==
    IF status = "succeeded" THEN "completed" ELSE "pending"

\* meta written by the gateway's update: the inserted row's meta with the
\* provider's id and url.
GatewayMeta(videoMeta, render) ==
    JsonObject(Spread(videoMeta,
        [creatomate_id |-> render.id, render_url |-> render.url]))

\* The row after the gateway's update.
GatewayUpdate(row, videoMeta, render) ==
    [row EXCEPT !.meta = GatewayMeta(videoMeta, render),
                !.status = RenderStatus(render.status),
                !.video_url = ColumnAfterUpdate(row.video_url, render.url)]

\* const render = Array.isArray(result) ? result[0] : result
\* for the bodies a provider sends: one render object, an array of one, or
\* an empty array.
Renders ==
    [present : {TRUE}, id : {"r1"}, url : {"u1", Undefined},
     status : {"succeeded", "planned"}]
FirstRender(shape, render) ==
    IF shape = "empty" THEN NoRender ELSE render

\* The invocation: where it stands (pc), the handler's locals (i, response,
\* lastError, video.id, video.meta), and the response sent (resp 0: none
\* yet); the locals are gone once the response is sent. With them, what the
\* invocation did to the provider: the calls made, the waits slept before
\* them, and the provider's answers in order (log).
GwIdle ==
    [pc |-> "idle", i |-> 0, calls |-> 0, delays |-> <<>>, log |-> <<>>,
     response |-> "none", lastError |-> NoError, video |-> 0,
     meta |-> EmptyMeta, resp |-> 0, error |-> NoError, videoId |-> 0]

GwEnd(status, error) ==
    [GwIdle EXCEPT !.pc = "done", !.resp = status, !.error = error]

\* How far POST gets before the retry loop: the checks in the order the
\* code makes them (the user, the template, the API key), then the insert.
\* The older copy of the route reads no templateId and has its key in the
\* source.
StartOutcome_NoAuthCheck(auth, variant, templateId, apiKey, dbOk) ==
    CASE variant = "template" /\ templateId # Undefined
              /\ getTemplate(templateId) = Null -> "template_not_found"
      [] variant = "template" /\ ~apiKey
              /\ (templateId = Undefined \/ getTemplate(templateId) # Null)
            -> "missing_api_key"
      [] OTHER -> IF dbOk THEN "inserted" ELSE "db_error"
StartOutcome(auth, variant, templateId, apiKey, dbOk) ==
    CASE ~auth -> "Unauthorized"
      [] auth /\ variant = "template" /\ templateId # Undefined
              /\ getTemplate(templateId) = Null -> "template_not_found"
      [] auth /\ variant = "template" /\ ~apiKey
              /\ (templateId = Undefined \/ getTemplate(templateId) # Null)
            -> "missing_api_key"
      [] OTHER -> IF dbOk THEN "inserted" ELSE "db_error"

StartStatus(outcome) ==
    CASE outcome = "Unauthorized" -> 401
      [] outcome = "template_not_found" -> 404
      [] OTHER -> 500

\* POST up to and including the insert of the row: getUser, the template
\* lookup, the API key and the insert, each ending the request when it fails.
CreatomatePOST_Start_CallsWithoutInsert(auth, variant, templateId, apiKey, dbOk) ==
    /\ gw.pc \in {"idle", "done"}
    /\ invocations < MaxInvocations
    /\ invocations' = invocations + 1
    /\ LET meta == InsertMeta(variant, templateId, "m1")
           id == NextVideoId
           outcome == StartOutcome(auth, variant, templateId, apiKey, dbOk)
       IN  IF outcome = "inserted"
           THEN /\ videos' = videos @@ (id :> InsertedRow(meta))
                /\ gw' = [GwIdle EXCEPT !.pc = "loop", !.video = id,
                                        !.meta = meta]
           ELSE /\ gw' = IF outcome = "db_error"
                           THEN [GwIdle EXCEPT !.pc = "loop", !.meta = meta]
                           ELSE GwEnd(StartStatus(outcome),
                                      [kind |-> outcome, attempt |-> 0])
                /\ UNCHANGED videos
    /\ UNCHANGED <<hg, wh, poll, proxy, form, tm>>
CreatomatePOST_Start(auth, variant, templateId, apiKey, dbOk) ==
    /\ gw.pc \in {"idle", "done"}
    /\ invocations < MaxInvocations
    /\ invocations' = invocations + 1
    /\ LET meta == InsertMeta(variant, templateId, "m1")
           id == NextVideoId
           outcome == StartOutcome(auth, variant, templateId, apiKey, dbOk)
       IN  IF outcome = "inserted"
           THEN /\ videos' = videos @@ (id :> InsertedRow(meta))
                /\ gw' = [GwIdle EXCEPT !.pc = "loop", !.video = id,
                                        !.meta = meta]
           ELSE /\ gw' = GwEnd(StartStatus(outcome),
                               [kind |-> outcome, attempt |-> 0])
                /\ UNCHANGED videos
    /\ UNCHANGED <<hg, wh, poll, proxy, form, tm>>

\* One iteration of the retry loop: the wait (from the second attempt on),
\* the provider call, and what the try/catch makes of its outcome.
CreatomatePOST_Attempt(outcome) ==
    /\ gw.pc = "loop"
    /\ gw' = [gw EXCEPT
                !.delays = IF gw.i > 0 THEN Append(@, RetryDelay(gw.i)) ELSE @,
                !.calls = @ + 1,
                !.log = Append(@, outcome),
                !.response = ResponseAfter(@, outcome),
                !.lastError = LastErrorAfter(@, outcome, gw.i),
                !.i = IF outcome = "ok" THEN @ ELSE @ + 1,
                !.pc = IF LoopContinues(outcome, gw.i) THEN "loop" ELSE "after"]
    /\ UNCHANGED <<videos, hg, wh, poll, proxy, invocations, form, tm>>

\* After the loop: the throw when no ok response was obtained, otherwise the
\* update of the row (whose error the code does not look at) and the success
\* response.
CreatomatePOST_Finish_UpdateErrorThrown(shape, body, dbOk) ==
    /\ gw.pc = "after"
    /\ IF gw.response # "ok"
       THEN /\ gw' = [GwIdle EXCEPT !.pc = "done", !.resp = 500,
                         !.calls = gw.calls, !.delays = gw.delays,
                         !.log = gw.log, !.video = gw.video,
                         !.error = IF gw.lastError # NoError THEN gw.lastError
                                   ELSE [kind |-> "failed_to_connect", attempt |-> 0]]
            /\ UNCHANGED videos
       ELSE LET render == FirstRender(shape, body)
                write == render.present /\ dbOk /\ gw.video \in DOMAIN videos
            IN  /\ videos' = IF write
                             THEN [videos EXCEPT ![gw.video] =
                                      GatewayUpdate(@, gw.meta, render)]
                             ELSE videos
                /\ gw' = [GwIdle EXCEPT !.pc = "done",
                             !.resp = IF render.present /\ ~dbOk
                                      THEN 500 ELSE 200,
                             !.calls = gw.calls, !.delays = gw.delays,
                             !.log = gw.log, !.video = gw.video,
                             !.videoId = gw.video]
    /\ UNCHANGED <<hg, wh, poll, proxy, invocations, form, tm>>
CreatomatePOST_Finish(shape, body, dbOk) ==
    /\ gw.pc = "after"
    /\ IF gw.response # "ok"
       THEN /\ gw' = [GwIdle EXCEPT !.pc = "done", !.resp = 500,
                         !.calls = gw.calls, !.delays = gw.delays,
                         !.log = gw.log, !.video = gw.video,
                         !.error = IF gw.lastError # NoError THEN gw.lastError
                                   ELSE [kind |-> "failed_to_connect", attempt |-> 0]]
            /\ UNCHANGED videos
       ELSE LET render == FirstRender(shape, body)
                write == render.present /\ dbOk /\ gw.video \in DOMAIN videos
            IN  /\ videos' = IF write
                             THEN [videos EXCEPT ![gw.video] =
                                      GatewayUpdate(@, gw.meta, render)]
                             ELSE videos
                /\ gw' = [GwIdle EXCEPT !.pc = "done", !.resp = 200,
                             !.calls = gw.calls, !.delays = gw.delays,
                             !.log = gw.log, !.video = gw.video,
                             !.videoId = gw.video]
    /\ UNCHANGED <<hg, wh, poll, proxy, invocations, form, tm>>


\* ------------------------------------------------------ webhook receiver
\* Ids a webhook's metadata can name: 0 stands for a falsy videoId; 1 and 2
\* are the first ids the table hands out, a row with that id existing or not.
VideoIdCandidates == 0 .. 2

Digits == <<"0", "1", "2", "3", "4", "5", "6", "7", "8", "9">>
Digit(n) == Digits[n + 1]
DigitValue(d) == CHOOSE n \in 0 .. 9 : Digits[n + 1] = d

\* JSON.stringify({ videoId, userId }), as the gateway tags the render: the
\* text as a sequence of tokens.
JsonStringify(videoId) ==
    <<"{", "videoId", Digit(videoId), "userId", "user", "}">>

\* JSON.parse of a metadata text: the object it encodes, or a throw for a
\* text that is not JSON. [ok, videoId]: videoId 0 when the object has none.
JsonParse(text) ==
    IF Len(text) >= 2 /\ text[1] = "{" /\ text[Len(text)] = "}"
    THEN [ok |-> TRUE,
          videoId |-> IF Len(text) >= 4 /\ text[2] = "videoId"
                         /\ \E n \in 0 .. 9 : Digits[n + 1] = text[3]
                      THEN DigitValue(text[3]) ELSE 0]
    ELSE [ok |-> FALSE, videoId |-> 0]

\* The metadata a payload can carry: none, an object (with or without a
\* videoId), or a string (the JSON text of such an object, or garbage).
MetaAbsent == [type |-> "undefined", videoId |-> 0, text |-> <<>>]
MetaObject(v) == [type |-> "object", videoId |-> v, text |-> <<>>]
MetaString(t) == [type |-> "string", videoId |-> 0, text |-> t]
Metadatas ==
    {MetaAbsent} \cup {MetaObject(v) : v \in VideoIdCandidates}
        \cup {MetaString(JsonStringify(v)) : v \in VideoIdCandidates \ {0}}
        \cup {MetaString(<<"{", "}">>), MetaString(<<"not", "json">>)}

\* parsedMetadata?.videoId: a string is parsed first and kept as the string
\* when the parse throws; a string and undefined have no videoId.
ParsedVideoId_StringNotParsed(metadata) ==
    IF metadata.type = "object" THEN metadata.videoId ELSE 0
ParsedVideoId(metadata) ==
    CASE metadata.type = "object" -> metadata.videoId
      [] metadata.type = "string" ->
            IF JsonParse(metadata.text).ok
            THEN JsonParse(metadata.text).videoId ELSE 0
      [] OTHER -> 0

\* The payloads delivered: every combination of id, status, url and
\* metadata, an id or a status possibly missing (such a payload is answered
\* before its url is looked at, so one url stands for all).
Payloads ==
    {p \in [id : RenderIds \cup {Undefined},
            status : ProviderStatuses \cup {Undefined},
            url : Urls \cup {Undefined},
            metadata : Metadatas] :
        (p.id = Undefined \/ p.status = Undefined) => p.url = "u1"}

\* What the select of the row's meta can answer: the row or an error; the
\* select is not made for a payload without a videoId.
SelectAnswers(payload) ==
    IF ParsedVideoId(payload.metadata) = 0 THEN {TRUE} ELSE BOOLEAN

\* The row's status from the provider's status.
WebhookStatus_Processing(status) ==
    IF status = "succeeded" THEN "completed"
    ELSE IF status = "failed" THEN "failed"
    ELSE IF status = "rendering" THEN "processing" ELSE "pending"
WebhookStatus_NoFailed(status) ==
    IF status = "succeeded" THEN "completed" ELSE "pending"
WebhookStatus(status) ==
    IF status = "succeeded" THEN "completed"
    ELSE IF status = "failed" THEN "failed" ELSE "pending"

\* updateData.meta: the meta read from the row with the payload's id, url and
\* status merged in.
WebhookMeta_NoSpread(currentMeta, payload) ==
    JsonObject([creatomate_id |-> payload.id, render_url |-> payload.url,
                last_webhook_status |-> payload.status])
WebhookMeta_KeepsPrevious(currentMeta, payload) ==
    JsonObject(Spread(currentMeta,
        [creatomate_id |-> payload.id, render_url |-> payload.url,
         last_webhook_status |-> payload.status,
         previous_webhook_status |->
            IF "last_webhook_status" \in DOMAIN currentMeta
            THEN currentMeta["last_webhook_status"] ELSE Undefined]))
WebhookMeta(currentMeta, payload) ==
    JsonObject(Spread(currentMeta,
        [creatomate_id |-> payload.id, render_url |-> payload.url,
         last_webhook_status |-> payload.status]))

\* updateData: status and video_url always, meta only when the select found
\* the row.
UpdateData(payload, found, currentMeta) ==
    [status |-> WebhookStatus(payload.status),
     video_url |-> payload.url,
     hasMeta |-> found,
     meta |-> IF found THEN WebhookMeta(currentMeta, payload) ELSE EmptyMeta]

\* The row after .update(updateData).
WebhookUpdate(row, updateData) ==
    [row EXCEPT !.status = updateData.status,
                !.video_url = ColumnAfterUpdate(row.video_url, updateData.video_url),
                !.meta = IF updateData.hasMeta THEN updateData.meta ELSE @]

\* const { id, status, url } = body, as the handler holds them.
Destructured(payload) ==
    [id |-> payload.id, status |-> payload.status, url |-> payload.url]
NoPayload ==
    [id |-> Undefined, status |-> Undefined, url |-> Undefined]
NoUpdateData == UpdateData(NoPayload, FALSE, EmptyMeta)

\* The delivery: where it stands (pc), the handler's locals (id, status and
\* url as payload, videoId, updateData) while it runs, and the response sent (resp 0: none yet).
\* valid and videoId are kept with the response: whether the payload had id
\* and status, and the videoId its metadata carried (0: none).
WhIdle ==
    [pc |-> "idle", payload |-> NoPayload, valid |-> FALSE, videoId |-> 0,
     updateData |-> NoUpdateData, resp |-> 0, body |-> "none"]

\* Where POST goes with a payload: the 400 for one without id or status,
\* then, by the videoId its metadata yields, the acknowledgment alone or the
\* select and update.
ReceiveOutcome_NoPayloadCheck(payload) ==
    IF ParsedVideoId(payload.metadata) = 0 THEN "acknowledge" ELSE "update"
ReceiveOutcome_SelectsBeforeCheck(payload) ==
    CASE ParsedVideoId(payload.metadata) # 0 -> "update"
      [] ParsedVideoId(payload.metadata) = 0
              /\ (payload.id = Undefined \/ payload.status = Undefined) -> "invalid"
      [] OTHER -> "acknowledge"
ReceiveOutcome(payload) ==
    CASE payload.id = Undefined \/ payload.status = Undefined -> "invalid"
      [] payload.id # Undefined /\ payload.status # Undefined
              /\ ParsedVideoId(payload.metadata) = 0 -> "acknowledge"
      [] OTHER -> "update"

\* The handler after its first part, for a payload and the select's answer:
\* answered (400, or the acknowledgment), or holding updateData for the
\* update to come.
Received(table, payload, dbOk) ==
    LET videoId == ParsedVideoId(payload.metadata)
        found == dbOk /\ videoId \in DOMAIN table
        valid == payload.id # Undefined /\ payload.status # Undefined
        outcome == ReceiveOutcome(payload)
    IN  CASE outcome = "invalid" ->
               [WhIdle EXCEPT !.pc = "done", !.valid = valid,
                              !.videoId = videoId,
                              !.resp = 400, !.body = "Invalid payload"]
          [] outcome = "acknowledge" ->
               [WhIdle EXCEPT !.pc = "done", !.valid = valid,
                              !.videoId = videoId,
                              !.resp = 200, !.body = "received"]
          [] OTHER ->
               [WhIdle EXCEPT !.pc = "update",
                    !.payload = Destructured(payload),
                    !.valid = valid, !.videoId = videoId,
                    !.updateData = UpdateData(payload, found,
                        IF found THEN table[videoId].meta ELSE EmptyMeta)]

\* POST up to the select of the row's meta: the payload check, the metadata
\* parse, and either the acknowledgment (no videoId) or the select.
WebhookPOST_Receive(payload, dbOk) ==
    /\ wh.pc \in {"idle", "done"}
    /\ wh' = Received(videos, payload, dbOk)
    /\ UNCHANGED <<videos, gw, hg, poll, proxy, invocations, form, tm>>

\* The update of the row and the response: an update error is thrown and
\* answered 500; an update that matches no row is no error.
WebhookPOST_Update_Upserts(dbOk) ==
    /\ wh.pc = "update"
    /\ videos' = IF ~dbOk THEN videos
                 ELSE IF wh.videoId \in DOMAIN videos
                 THEN [videos EXCEPT ![wh.videoId] =
                          WebhookUpdate(@, wh.updateData)]
                 ELSE IF wh.videoId = NextVideoId
                 THEN Append(videos,
                          [status |-> wh.updateData.status,
                           video_url |-> wh.updateData.video_url,
                           meta |-> EmptyMeta, heygen_video_id |-> Null])
                 ELSE videos
    /\ wh' = [WhIdle EXCEPT !.pc = "done", !.valid = wh.valid,
                 !.videoId = wh.videoId,
                 !.resp = IF dbOk THEN 200 ELSE 500,
                 !.body = IF dbOk THEN "received" ELSE "db_error"]
    /\ UNCHANGED <<gw, hg, poll, proxy, invocations, form, tm>>
WebhookPOST_Update(dbOk) ==
    /\ wh.pc = "update"
    /\ IF dbOk
       THEN /\ videos' = IF wh.videoId \in DOMAIN videos
                         THEN [videos EXCEPT ![wh.videoId] =
                                  WebhookUpdate(@, wh.updateData)]
                         ELSE videos
            /\ wh' = [WhIdle EXCEPT !.pc = "done", !.valid = wh.valid,
                         !.videoId = wh.videoId,
                         !.resp = 200, !.body = "received"]
       ELSE /\ UNCHANGED videos
            /\ wh' = [WhIdle EXCEPT !.pc = "done", !.valid = wh.valid,
                         !.videoId = wh.videoId,
                         !.resp = 500, !.body = "db_error"]
    /\ UNCHANGED <<gw, hg, poll, proxy, invocations, form, tm>>

\* ---------------------------------------------------------- HeyGen gateway
HgIdle == [resp |-> 0, error |-> "none", calls |-> 0, videoId |-> 0]

HeygenMeta ==
    [mediaUrls |-> "media", template |-> "REAL_ESTATE_WALKTHROUGH"]

\* heygenData.video_id of the provider's answer: null when the answer has
\* none.
HeygenVideoId(outcome) ==
    IF outcome = "ok_video_id" THEN "h1" ELSE Null

\* What the single call to HeyGen can come back as.
HeygenOutcomes == {"ok_video_id", "ok_no_video_id", "not_ok", "throw"}

\* How POST of the HeyGen route ends: the checks and throws in the order the
\* code makes them, the provider call before the insert.
HeygenResult_NoVideoIdCheck(auth, propertyFound, outcome, dbOk) ==
    CASE ~auth -> "Unauthorized"
      [] auth /\ ~propertyFound -> "Property not found"
      [] auth /\ propertyFound /\ outcome = "throw" -> "transport"
      [] auth /\ propertyFound /\ outcome = "not_ok" -> "HeyGen API Error"
      [] OTHER -> IF dbOk THEN "inserted" ELSE "db_error"
HeygenResult(auth, propertyFound, outcome, dbOk) ==
    CASE ~auth -> "Unauthorized"
      [] auth /\ ~propertyFound -> "Property not found"
      [] auth /\ propertyFound /\ outcome = "throw" -> "transport"
      [] auth /\ propertyFound /\ outcome = "not_ok" -> "HeyGen API Error"
      [] auth /\ propertyFound /\ outcome = "ok_no_video_id"
            -> "No video_id returned from HeyGen"
      [] OTHER -> IF dbOk THEN "inserted" ELSE "db_error"

\* POST of the HeyGen route: getUser, the property select, one provider call,
\* and only then the insert of the row. Nothing of it is visible to another
\* request before the insert, so it is one step.
HeygenPOST(auth, propertyFound, outcome, dbOk) ==
    /\ invocations < MaxInvocations
    /\ invocations' = invocations + 1
    /\ LET id == NextVideoId
           result == HeygenResult(auth, propertyFound, outcome, dbOk)
       IN  IF result = "inserted"
           THEN /\ videos' = videos @@
                     (id :> [status |-> "pending", video_url |-> Null,
                             meta |-> HeygenMeta,
                             heygen_video_id |-> HeygenVideoId(outcome)])
                /\ hg' = [HgIdle EXCEPT !.resp = 200, !.calls = 1,
                                        !.videoId = id]
           ELSE /\ hg' = [HgIdle EXCEPT
                            !.resp = IF result = "Unauthorized" THEN 401 ELSE 500,
                            !.error = result,
                            !.calls = IF result \in {"Unauthorized", "Property not found"}
                                      THEN 0 ELSE 1]
                /\ UNCHANGED videos
    /\ UNCHANGED <<gw, wh, poll, proxy, form, tm>>

\* ----------------------------------------------------------- status poller
NoRow ==
    [status |-> Null, video_url |-> Null, meta |-> EmptyMeta,
     heygen_video_id |-> Null]

\* useState(null), useState('pending'); no effect has run yet. interval is
\* the period in ms of the timer the effect has set, 0 when none is set.
PollInit ==
    [mounted |-> FALSE, videoId |-> 0, interval |-> 0,
     status |-> "pending", video |-> [id |-> 0, row |-> NoRow],
     inflight |-> {}]

\* fetchStatus up to its await: the select of the row with the effect's
\* videoId, as the database answers it.
Fetch(videoId) ==
    [id |-> videoId, found |-> videoId \in DOMAIN videos,
     row |-> IF videoId \in DOMAIN videos THEN videos[videoId] ELSE NoRow]

\* The effect for a (new) videoId: the previous effect's cleanup clears its
\* interval; a falsy videoId returns at once; otherwise fetchStatus() is
\* called and the interval is set.
useVideoStatus_Effect(videoId) ==
    /\ ~poll.mounted \/ poll.videoId # videoId
    /\ videoId = 0 \/ Cardinality(poll.inflight) < MaxPolls
    /\ poll' = IF videoId = 0
               THEN [poll EXCEPT !.mounted = TRUE, !.videoId = 0,
                                 !.interval = 0]
               ELSE [poll EXCEPT !.mounted = TRUE, !.videoId = videoId,
                                 !.interval = PollIntervalMs,
                                 !.inflight = @ \cup {Fetch(videoId)}]
    /\ UNCHANGED <<videos, gw, hg, wh, proxy, invocations, form, tm>>

\* The interval fires: fetchStatus() of the effect that set it.
useVideoStatus_Tick ==
    /\ poll.interval > 0
    /\ Cardinality(poll.inflight) < MaxPolls
    /\ poll' = [poll EXCEPT !.inflight = @ \cup {Fetch(poll.videoId)}]
    /\ UNCHANGED <<videos, gw, hg, wh, proxy, invocations, form, tm>>

\* fetchStatus after its await: setVideo and setStatus when a row came back.
useVideoStatus_Resolve_StopsOnTerminal(f) ==
    /\ f \in poll.inflight
    /\ poll' = [poll EXCEPT
                  !.inflight = @ \ {f},
                  !.video = IF f.found THEN [id |-> f.id, row |-> f.row] ELSE @,
                  !.status = IF f.found THEN f.row.status ELSE @,
                  !.interval = IF f.found /\ f.row.status \in {"completed", "failed"}
                               THEN 0 ELSE @]
    /\ UNCHANGED <<videos, gw, hg, wh, proxy, invocations, form, tm>>
useVideoStatus_Resolve_WritesStatus(f) ==
    /\ f \in poll.inflight
    /\ poll' = [poll EXCEPT
                  !.inflight = @ \ {f},
                  !.video = IF f.found THEN [id |-> f.id, row |-> f.row] ELSE @,
                  !.status = IF f.found THEN f.row.status ELSE @]
    /\ videos' = IF f.found /\ f.id \in DOMAIN videos
                 THEN [videos EXCEPT ![f.id].status = f.row.status]
                 ELSE videos
    /\ UNCHANGED <<gw, hg, wh, proxy, invocations, form, tm>>
useVideoStatus_Resolve(f) ==
    /\ f \in poll.inflight
    /\ poll' = [poll EXCEPT
                  !.inflight = @ \ {f},
                  !.video = IF f.found THEN [id |-> f.id, row |-> f.row] ELSE @,
                  !.status = IF f.found THEN f.row.status ELSE @]
    /\ UNCHANGED <<videos, gw, hg, wh, proxy, invocations, form, tm>>

\* Unmount: the effect's cleanup, clearInterval.
useVideoStatus_Unmount_NoCleanup ==
    /\ poll.mounted
    /\ poll' = [poll EXCEPT !.mounted = FALSE]
    /\ UNCHANGED <<videos, gw, hg, wh, proxy, invocations, form, tm>>
useVideoStatus_Unmount ==
    /\ poll.mounted
    /\ poll' = [poll EXCEPT !.mounted = FALSE, !.interval = 0]
    /\ UNCHANGED <<videos, gw, hg, wh, proxy, invocations, form, tm>>

\* ------------------------------------------------------------ proxy routes
\* JavaScript's falsy values among those a field of a request body takes
\* here, and a || b.
Falsy(x) == x \in {Undefined, Null, ""}
Or(a, b) == IF Falsy(a) THEN b ELSE a

\* What the call to the backend service can come back as: an ok response,
\* a response that is not ok, the connection refused, or another throw.
BackendOutcomes == {"ok", "not_ok", "refused", "throw"}
\* The status of a backend response that is not ok.
BackendErrorStatus == 422

\* An answered request: the route, the request as it came, the response's
\* status and error, the calls made to the backend, and what was forwarded.
Answer(route, request, status, error, calls, forwarded) ==
    [route |-> route, request |-> request, status |-> status,
     error |-> error, calls |-> calls, forwarded |-> forwarded]

\* /api/mcp/generate: the 400 for a falsy prompt, otherwise { prompt } is
\* forwarded and the backend's answer passed on.
McpAnswer_NoPromptCheck(prompt, outcome) ==
    LET request == [prompt |-> prompt]
    IN  CASE outcome = "ok" -> Answer("mcp", request, 200, "none", 1, prompt)
          [] outcome = "not_ok" ->
               Answer("mcp", request, BackendErrorStatus, "detail", 1, prompt)
          [] outcome = "refused" ->
               Answer("mcp", request, 503, "MCP service is not running", 1, prompt)
          [] OTHER -> Answer("mcp", request, 500, "message", 1, prompt)
McpAnswer(prompt, outcome) ==
    LET request == [prompt |-> prompt]
    IN  CASE Falsy(prompt) ->
               Answer("mcp", request, 400, "Prompt is required", 0, Undefined)
          [] ~Falsy(prompt) /\ outcome = "ok" ->
               Answer("mcp", request, 200, "none", 1, prompt)
          [] ~Falsy(prompt) /\ outcome = "not_ok" ->
               Answer("mcp", request, BackendErrorStatus, "detail", 1, prompt)
          [] ~Falsy(prompt) /\ outcome = "refused" ->
               Answer("mcp", request, 503, "MCP service is not running", 1, prompt)
          [] OTHER -> Answer("mcp", request, 500, "message", 1, prompt)

McpPOST(prompt, outcome) ==
    /\ Len(proxy) < MaxRequests
    /\ proxy' = Append(proxy, McpAnswer(prompt, outcome))
    /\ UNCHANGED <<videos, gw, hg, wh, poll, invocations, form, tm>>

\* The bodies /api/gemini/design gets: with the prompt wrapper
\* ({ prompt: { details } }) or direct ({ raw_input, details }), each field
\* absent, empty or given.
DesignBodies ==
    [wrapper : BOOLEAN, details : {Undefined, "", "d"},
     raw_input : {Undefined, "", "r"}]

\* pythonPayload.raw_input of the route's current copy.
RawInput(body) ==
    IF body.wrapper THEN Or(body.details, "")
    ELSE Or(Or(body.raw_input, body.details), "")

\* /api/gemini/design, current copy: the 400 for an empty raw_input,
\* otherwise the payload is forwarded and the backend's answer passed on
\* (with the backend's status when it is not ok).
DesignAnswer(body, outcome) ==
    LET raw == RawInput(body)
    IN  CASE Falsy(raw) ->
               Answer("design", body, 400,
                      "Property details (raw_input) is required", 0, Undefined)
          [] ~Falsy(raw) /\ outcome = "ok" ->
               Answer("design", body, 200, "none", 1, raw)
          [] ~Falsy(raw) /\ outcome = "not_ok" ->
               Answer("design", body, BackendErrorStatus, "AI Service Error", 1, raw)
          [] OTHER -> Answer("design", body, 500, "message", 1, raw)

\* /api/gemini/design, older copy in the same file: no check at all. A body
\* without the prompt wrapper throws at body.prompt.category; any details,
\* empty ones too, are forwarded; a backend answer that is not ok is thrown
\* and answered 500.
DesignOldAnswer(body, outcome) ==
    CASE ~body.wrapper ->
           Answer("design_old", body, 500, "message", 0, Undefined)
      [] body.wrapper /\ outcome = "ok" ->
           Answer("design_old", body, 200, "none", 1, body.details)
      [] OTHER ->
           Answer("design_old", body, 500, "message", 1, body.details)

DesignPOST(body, outcome) ==
    /\ Len(proxy) < MaxRequests
    /\ proxy' = Append(proxy, DesignAnswer(body, outcome))
    /\ UNCHANGED <<videos, gw, hg, wh, poll, invocations, form, tm>>

DesignOldPOST(body, outcome) ==
    /\ Len(proxy) < MaxRequests
    /\ proxy' = Append(proxy, DesignOldAnswer(body, outcome))
    /\ UNCHANGED <<videos, gw, hg, wh, poll, invocations, form, tm>>

\* ------------------------------------------------------ VideoEditor form
\* The media the form uploads.
MediaKeys == {"mainVideo", "mainImage"}

\* useState(1), useState(false), useState({}), and of formData the fields
\* that guard the buttons: mediaUrls (key -> public url) and confirmed; the
\* text fields only fill the payload. uploads and submissions count the
\* uploadMedia and handleGenerate calls that have not returned yet.
FormInit ==
    [step |-> 1, generating |-> FALSE, uploadingState |-> {},
     mediaUrls |-> [k \in {} |-> "u1"], confirmed |-> FALSE,
     uploads |-> [k \in MediaKeys |-> 0], submissions |-> 0]

\* disabled of "Next: Review".
NextReviewDisabled(f) ==
    "mainVideo" \notin DOMAIN f.mediaUrls \/ "mainImage" \notin DOMAIN f.mediaUrls

\* disabled of "Run Render".
RunRenderDisabled_IgnoresGenerating(f) ==
    ~f.confirmed
RunRenderDisabled(f) ==
    ~f.confirmed \/ f.generating

\* "Next: Assets" of step 1, "Back" of step 2 and of step 3.
VideoEditor_SetStep(to) ==
    /\ \/ form.step = 1 /\ to = 2
       \/ form.step = 2 /\ to = 1
       \/ form.step = 3 /\ to = 2
    /\ form' = [form EXCEPT !.step = to]
    /\ UNCHANGED <<videos, gw, hg, wh, poll, proxy, invocations, tm>>

\* "Next: Review" of step 2, when not disabled.
VideoEditor_NextReview ==
    /\ form.step = 2
    /\ ~NextReviewDisabled(form)
    /\ form' = [form EXCEPT !.step = 3]
    /\ UNCHANGED <<videos, gw, hg, wh, poll, proxy, invocations, tm>>

\* The x of an uploaded medium in step 2: mediaUrls without the key.
VideoEditor_Remove(key) ==
    /\ form.step = 2
    /\ key \in DOMAIN form.mediaUrls
    /\ form' = [form EXCEPT
                  !.mediaUrls = [k \in DOMAIN form.mediaUrls \ {key} |->
                                    form.mediaUrls[k]]]
    /\ UNCHANGED <<videos, gw, hg, wh, poll, proxy, invocations, tm>>

\* uploadMedia(key, file) up to its first await; the file input is shown in
\* step 2 for a medium not uploaded yet.
uploadMedia_Start(key) ==
    /\ form.step = 2
    /\ key \notin DOMAIN form.mediaUrls
    /\ form.uploads["mainVideo"] + form.uploads["mainImage"] < MaxUploads
    /\ form' = [form EXCEPT !.uploadingState = @ \cup {key},
                            !.uploads[key] = @ + 1]
    /\ UNCHANGED <<videos, gw, hg, wh, poll, proxy, invocations, tm>>

\* uploadMedia after its awaits: the public url is stored under the key, or
\* the error is shown; the uploading flag of the key is reset.
uploadMedia_Settle(key, ok, publicUrl) ==
    /\ form.uploads[key] > 0
    /\ form' = [form EXCEPT
                  !.mediaUrls = IF ok
                                THEN Spread(@, [k \in {key} |-> publicUrl])
                                ELSE @,
                  !.uploadingState = @ \ {key},
                  !.uploads[key] = @ - 1]
    /\ UNCHANGED <<videos, gw, hg, wh, poll, proxy, invocations, tm>>

\* The checkbox of step 3: handleInput('confirmed', checked).
VideoEditor_Confirm(checked) ==
    /\ form.step = 3
    /\ form' = [form EXCEPT !.confirmed = checked]
    /\ UNCHANGED <<videos, gw, hg, wh, poll, proxy, invocations, tm>>

\* A click on "Run Render", shown in step 3, when not disabled:
\* handleGenerate up to its first await, which returns without confirmed
\* and otherwise sets generating.
VideoEditor_RunRender ==
    /\ form.step = 3
    /\ ~RunRenderDisabled(form)
    /\ form.submissions < MaxSubmissions
    /\ form' = IF ~form.confirmed THEN form
               ELSE [form EXCEPT !.generating = TRUE,
                                 !.submissions = @ + 1]
    /\ UNCHANGED <<videos, gw, hg, wh, poll, proxy, invocations, tm>>

\* handleGenerate after its awaits, however they ended (no user, insert
\* error, gateway answer): finally setGenerating(false).
handleGenerate_Settle ==
    /\ form.submissions > 0
    /\ form' = [form EXCEPT !.generating = FALSE,
                            !.submissions = @ - 1]
    /\ UNCHANGED <<videos, gw, hg, wh, poll, proxy, invocations, tm>>

\* ------------------------------------------------------ TemplateManager
\* JavaScript values by type (t): a string is its sequence of characters
\* (s), a number n, a boolean b, an object its map from own keys (strings)
\* to values (o); the fields of the other types are left at a default.
JsNull == [t |-> "null", s |-> <<>>, n |-> 0, b |-> FALSE, o |-> <<>>]
JsUndefined == [JsNull EXCEPT !.t = "undefined"]
Str(chars) == [JsNull EXCEPT !.t = "string", !.s = chars]
Num(n) == [JsNull EXCEPT !.t = "number", !.n = n]
Bool(b) == [JsNull EXCEPT !.t = "boolean", !.b = b]
Obj(members) == [JsNull EXCEPT !.t = "object", !.o = members]
EmptyObject == Obj([k \in {} |-> JsNull])
Object1(key, value) == Obj([k \in {key} |-> value])

\* The falsy values: undefined, null, '', 0, false.
JsFalsy(val) ==
    \/ val.t \in {"undefined", "null"}
    \/ val.t = "string" /\ val.s = <<>>
    \/ val.t = "number" /\ val.n = 0
    \/ val.t = "boolean" /\ ~val.b

\* String(val), as replace() converts what its callback returns; numbers
\* here are single digits.
StringOf(val) ==
    CASE val.t = "string" -> val.s
      [] val.t = "number" -> <<Digit(val.n)>>
      [] val.t = "boolean" -> IF val.b THEN <<"t", "r", "u", "e">>
                              ELSE <<"f", "a", "l", "s", "e">>
      [] val.t = "null" -> <<"n", "u", "l", "l">>
      [] val.t = "undefined" -> <<"u", "n", "d", "e", "f", "i", "n", "e", "d">>
      [] OTHER -> <<"[", "o", "b", "j", "e", "c", "t", " ",
                    "O", "b", "j", "e", "c", "t", "]">>

\* path.split('.')
RECURSIVE Split(_)
Split(chars) ==
    IF \A i \in 1 .. Len(chars) : chars[i] # "."
    THEN <<chars>>
    ELSE LET dot == CHOOSE i \in 1 .. Len(chars) :
                        /\ chars[i] = "."
                        /\ \A j \in 1 .. i - 1 : chars[j] # "."
         IN  <<SubSeq(chars, 1, dot - 1)>>
                 \o Split(SubSeq(chars, dot + 1, Len(chars)))

\* obj[k] for the keys a path names here: an own key of an object, and
\* undefined on anything else.
Member(obj, k) ==
    IF obj.t = "object" /\ k \in DOMAIN obj.o THEN obj.o[k] ELSE JsUndefined

\* keys.reduce((obj, k) => (obj || {})[k], data)
RECURSIVE PathReduce(_, _)
PathReduce(obj, keys) ==
    IF keys = <<>> THEN obj
    ELSE PathReduce(Member(IF JsFalsy(obj) THEN EmptyObject ELSE obj,
                           Head(keys)),
                    Tail(keys))

\* val !== undefined && val !== null ? val : ''
Substitute_Truthy(val) ==
    IF JsFalsy(val) THEN Str(<<>>) ELSE val
Substitute(val) ==
    IF val.t \notin {"undefined", "null"} THEN val ELSE Str(<<>>)

\* Where the match of /\{\{([^}]+)\}\}/ that starts at i ends (the index of
\* its last character), 0 when none starts at i: two opening braces, one or
\* more characters other than a closing brace, two closing braces.
MatchEnd(chars, i) ==
    IF i + 1 > Len(chars) \/ chars[i] # "{" \/ chars[i + 1] # "{" THEN 0
    ELSE IF \A j \in i + 2 .. Len(chars) : chars[j] # "}" THEN 0
    ELSE LET close == CHOOSE j \in i + 2 .. Len(chars) :
                          /\ chars[j] = "}"
                          /\ \A k \in i + 2 .. j - 1 : chars[k] # "}"
         IN  IF close > i + 2 /\ close + 1 <= Len(chars)
                    /\ chars[close + 1] = "}"
             THEN close + 1 ELSE 0

\* value.replace(/\{\{([^}]+)\}\}/g, callback) from index i on: every match,
\* left to right, gives way to what the callback returns for its path; what
\* is put in is not searched again.
RECURSIVE ReplaceFrom(_, _, _)
ReplaceFrom(chars, i, data) ==
    IF i > Len(chars) THEN <<>>
    ELSE IF MatchEnd(chars, i) = 0
    THEN <<chars[i]>> \o ReplaceFrom(chars, i + 1, data)
    ELSE LET path == SubSeq(chars, i + 2, MatchEnd(chars, i) - 2)
         IN  StringOf(Substitute(PathReduce(data, Split(path))))
                 \o ReplaceFrom(chars, MatchEnd(chars, i) + 1, data)

\* TemplateManager.applyTemplate(template, data), template.modifications
\* given as the map it is.
applyTemplate(modifications, data) ==
    [key \in DOMAIN modifications |->
        IF modifications[key].t = "string"
        THEN Str(ReplaceFrom(modifications[key].s, 1, data))
        ELSE modifications[key]]

\* The pieces template strings are put together from: runs of text
\* without a placeholder, and placeholders {{key.key...}}.
Text(chars) == [kind |-> "text", chars |-> chars, keys |-> <<>>]
Placeholder(keys) == [kind |-> "placeholder", chars |-> <<>>, keys |-> keys]
Pieces ==
    {Text(<<"x">>), Text(<<"}">>), Text(<<"{", "x">>),
     Text(<<"{", "{", "}", "}">>),
     Placeholder(<<(<<"a">>)>>), Placeholder(<<(<<"b">>)>>),
     Placeholder(<<(<<"c">>)>>), Placeholder(<<(<<"a">>), (<<"b">>)>>),
     Placeholder(<<(<<"a">>), (<<"c">>)>>), Placeholder(<<(<<"a">>), (<<>>)>>)}
PieceSeqs ==
    UNION {[1 .. n -> Pieces] : n \in 0 .. MaxPieces}

\* The characters of a placeholder's path, of a piece, of a string.
RECURSIVE Join(_)
Join(keys) ==
    IF Len(keys) = 1 THEN keys[1]
    ELSE keys[1] \o <<".">> \o Join(Tail(keys))
PieceChars(piece) ==
    IF piece.kind = "text" THEN piece.chars
    ELSE <<"{", "{">> \o Join(piece.keys) \o <<"}", "}">>
RECURSIVE Flatten(_)
Flatten(pieces) ==
    IF pieces = <<>> THEN <<>>
    ELSE PieceChars(Head(pieces)) \o Flatten(Tail(pieces))

\* The values of a template's modifications: a string, as its pieces, or
\* one that is not a string; and the template built from them.
StringEntry(pieces) == [string |-> TRUE, pieces |-> pieces, value |-> JsNull]
OtherEntry(value) == [string |-> FALSE, pieces |-> <<>>, value |-> value]
OtherValues ==
    {Num(5), JsNull, Bool(TRUE),
     Object1(<<"a">>, Str(<<"{", "{", "a", "}", "}">>))}
TemplateSources ==
    {Spread([k \in {"k1"} |-> first], second) :
        first \in {StringEntry(ps) : ps \in PieceSeqs}
                      \cup {OtherEntry(val) : val \in OtherValues},
        second \in {[k \in {} |-> OtherEntry(JsNull)],
                    [k \in {"k2"} |-> OtherEntry(Num(1))],
                    [k \in {"k2"} |->
                        StringEntry(<<Placeholder(<<(<<"b">>)>>)>>)]}}
TemplateModifications(source) ==
    [key \in DOMAIN source |->
        IF source[key].string THEN Str(Flatten(source[key].pieces))
        ELSE source[key].value]

\* The data of a request: JSON objects with keys among a and b.
DataValues ==
    {JsNull, Str(<<>>), Str(<<"v">>), Str(<<"{", "{", "b", "}", "}">>),
     Num(0), Bool(FALSE), EmptyObject,
     Object1(<<"b">>, Str(<<"w">>)), Object1(<<"b">>, JsNull)}
Datas ==
    {Obj(Spread(first, second)) :
        first \in {[k \in {} |-> JsNull]}
                      \cup {[k \in {<<"a">>} |-> val] : val \in DataValues},
        second \in {[k \in {} |-> JsNull],
                    [k \in {<<"b">>} |-> Str(<<"u">>)]}}

\* A call: the template (as its source), the data, and what came back.
TmIdle ==
    [pc |-> "idle", source |-> [k \in {} |-> OtherEntry(JsNull)],
     data |-> EmptyObject, result |-> [k \in {} |-> JsNull]]

TemplateManager_applyTemplate ==
    /\ tm.pc = "called"
    /\ tm' = [tm EXCEPT !.pc = "returned",
                        !.result = applyTemplate(
                            TemplateModifications(tm.source), tm.data)]
    /\ UNCHANGED <<videos, gw, hg, wh, poll, proxy, invocations, form>>

\* ---------------------------------------------------------- specifications
InitHandlers ==
    /\ videos = [v \in {} |-> NoRow]
    /\ gw = GwIdle
    /\ hg = HgIdle
    /\ wh = WhIdle
    /\ poll = PollInit
    /\ proxy = <<>>
    /\ invocations = 0
    /\ form = FormInit

Init ==
    /\ InitHandlers
    /\ tm = TmIdle

\* The requests the Creatomate gateway can get, and the answers the provider
\* and the database can give it.
StartInputs ==
    [auth : BOOLEAN, variant : {"template", "edit"},
     templateId : {Undefined, "known", "unknown"},
     apiKey : BOOLEAN, dbOk : BOOLEAN]
FinishInputs ==
    [shape : {"object", "array", "empty"}, body : Renders, dbOk : BOOLEAN]

\* One job record shared by the Creatomate gateway and the webhook receiver:
\* a gateway invocation with a templateId inserts the row, and any number of
\* webhooks, with any payload, are delivered before, during and after it.
\* The retry loop touches nothing shared, so here the provider answers the
\* render-creation call ok; SpecGateway has its other answers.
Next ==
    \/ \E in \in {x \in StartInputs :
                    x.variant = "template" /\ x.templateId # Undefined} :
            /\ DOMAIN videos = {}
            /\ CreatomatePOST_Start(in.auth, in.variant, in.templateId,
                                    in.apiKey, in.dbOk)
    \/ \E outcome \in {"ok"} : CreatomatePOST_Attempt(outcome)
    \/ \E in \in FinishInputs :
            CreatomatePOST_Finish(in.shape, in.body, in.dbOk)
    \/ \E payload \in Payloads : \E dbOk \in SelectAnswers(payload) :
            WebhookPOST_Receive(payload, dbOk)
    \/ \E dbOk \in BOOLEAN : WebhookPOST_Update(dbOk)

Spec == Init /\ [][Next]_vars

\* The same, with every provider response and every payload carrying a url.
NextCarryingUrl ==
    \/ \E in \in {x \in StartInputs :
                    x.variant = "template" /\ x.templateId # Undefined} :
            /\ DOMAIN videos = {}
            /\ CreatomatePOST_Start(in.auth, in.variant, in.templateId,
                                    in.apiKey, in.dbOk)
    \/ \E outcome \in {"ok"} : CreatomatePOST_Attempt(outcome)
    \/ \E in \in {x \in FinishInputs : x.body.url # Undefined} :
            CreatomatePOST_Finish(in.shape, in.body, in.dbOk)
    \/ \E payload \in {p \in Payloads : p.url # Undefined} :
       \E dbOk \in SelectAnswers(payload) :
            WebhookPOST_Receive(payload, dbOk)
    \/ \E dbOk \in BOOLEAN : WebhookPOST_Update(dbOk)

SpecCarryingUrl == Init /\ [][NextCarryingUrl]_vars

\* The two generation gateways on their own, invoked one after the other,
\* with every outcome a provider call can have.
NextGateway ==
    \/ \E in \in StartInputs :
            CreatomatePOST_Start(in.auth, in.variant, in.templateId,
                                 in.apiKey, in.dbOk)
    \/ \E outcome \in Outcomes : CreatomatePOST_Attempt(outcome)
    \/ \E in \in FinishInputs :
            CreatomatePOST_Finish(in.shape, in.body, in.dbOk)
    \/ \E auth \in BOOLEAN, propertyFound \in BOOLEAN,
          outcome \in HeygenOutcomes, dbOk \in BOOLEAN :
            HeygenPOST(auth, propertyFound, outcome, dbOk)

SpecGateway == Init /\ [][NextGateway]_vars

\* The gateways with their handlers running on: a provider call made comes
\* back, as a response or as an exception, and the code after an await is
\* run.
SpecGatewayFair ==
    /\ SpecGateway
    /\ WF_vars(\E outcome \in Outcomes : CreatomatePOST_Attempt(outcome))
    /\ WF_vars(\E in \in FinishInputs :
                  CreatomatePOST_Finish(in.shape, in.body, in.dbOk))

\* The status poller of one job next to the job's writers: the gateway
\* invocation that inserts the row and the webhook deliveries that name it.
\* The hook is mounted, given a videoId (none, the row's, or another),
\* ticks, and is unmounted, in any order.
PollerPayloads ==
    {p \in Payloads : /\ p.id = "r1" /\ p.url = "u1"
                      /\ p.status \in {"succeeded", "failed"}
                      /\ p.metadata = MetaObject(1)}
NextPoller ==
    \/ /\ DOMAIN videos = {}
       /\ CreatomatePOST_Start(TRUE, "template", "known", TRUE, TRUE)
    \/ CreatomatePOST_Attempt("ok")
    \/ \E body \in {r \in Renders : r.url = "u1"} :
            CreatomatePOST_Finish("object", body, TRUE)
    \/ \E payload \in PollerPayloads : WebhookPOST_Receive(payload, TRUE)
    \/ WebhookPOST_Update(TRUE)
    \/ \E videoId \in VideoIdCandidates : useVideoStatus_Effect(videoId)
    \/ useVideoStatus_Tick
    \/ \E f \in poll.inflight : useVideoStatus_Resolve(f)
    \/ useVideoStatus_Unmount

SpecPoller == Init /\ [][NextPoller]_vars

\* The VideoEditor form under any sequence of clicks, uploads and removals.
NextEditor ==
    \/ \E to \in 1 .. 3 : VideoEditor_SetStep(to)
    \/ VideoEditor_NextReview
    \/ \E key \in MediaKeys : VideoEditor_Remove(key)
    \/ \E key \in MediaKeys : uploadMedia_Start(key)
    \/ \E key \in MediaKeys, ok \in BOOLEAN, publicUrl \in Urls :
            uploadMedia_Settle(key, ok, publicUrl)
    \/ \E checked \in BOOLEAN : VideoEditor_Confirm(checked)
    \/ VideoEditor_RunRender
    \/ handleGenerate_Settle

SpecEditor == Init /\ [][NextEditor]_vars

\* applyTemplate on its own, called with any template and any data.
InitTemplates ==
    /\ InitHandlers
    /\ tm \in [pc : {"called"}, source : TemplateSources, data : Datas,
                result : {[k \in {} |-> JsNull]}]

NextTemplates ==
    TemplateManager_applyTemplate

SpecTemplates == InitTemplates /\ [][NextTemplates]_vars

\* The proxy routes, answering requests one after the other.
Prompts == {Undefined, "", "p"}
NextProxy ==
    \/ \E prompt \in Prompts, outcome \in BackendOutcomes :
            McpPOST(prompt, outcome)
    \/ \E body \in DesignBodies, outcome \in BackendOutcomes :
            DesignPOST(body, outcome)
    \/ \E body \in DesignBodies, outcome \in BackendOutcomes :
            DesignOldPOST(body, outcome)

SpecProxy == Init /\ [][NextProxy]_vars

\* ------------------------------------------------------------------ claims
\* A step of the webhook receiver: no other handler's state moves.
WebhookStep == UNCHANGED <<gw, hg, poll, proxy, invocations, form, tm>>
\* A step of the poller.
PollerStep == UNCHANGED <<gw, hg, wh, proxy, invocations, form, tm>> /\ poll' # poll

Terminal == {"completed", "failed"}
MetaKeysOfWebhook == {"creatomate_id", "render_url", "last_webhook_status"}

\* C1: once a row's status is completed or failed, no webhook delivery and
\* no poller step changes it.
C1_TerminalStatusIsFinal ==
    [][(WebhookStep \/ PollerStep) =>
        \A v \in DOMAIN videos :
            videos[v].status \in Terminal =>
                videos'[v].status = videos[v].status]_vars

\* C2: when the provider answers the first render-creation call with a 4xx,
\* that call is the only one: no retry, no wait, and the invocation ends
\* with the provider's error.
C2_ClientErrorIsNotRetried ==
    (Len(gw.log) >= 1 /\ gw.log[1] \in {"4xx_error", "4xx_plain"}) =>
        /\ gw.calls = 1
        /\ gw.delays = <<>>
        /\ gw.pc \in {"after", "done"}
        /\ gw.pc = "done" =>
              /\ gw.resp = 500
              /\ gw.error.kind \in {"provider_error", "request_failed_with_status"}

\* C3: when the provider's answers are k transport failures (k < maxRetries)
\* and then an ok response, the invocation ends in success after exactly
\* min(k + 1, maxRetries) calls, having slept nothing before the first call
\* and 500 ms, then 1000 ms, strictly increasing, before the retries.
TransportFailuresThenOk(log) ==
    /\ Len(log) >= 1
    /\ log[Len(log)] = "ok"
    /\ \A k \in 1 .. Len(log) - 1 : log[k] = "throw"
C3_RetryUntilOk ==
    (gw.pc = "done" /\ TransportFailuresThenOk(gw.log)) =>
        LET failures == Len(gw.log) - 1
        IN  /\ gw.resp = 200
            /\ gw.calls = IF failures + 1 < maxRetries
                          THEN failures + 1 ELSE maxRetries
            /\ Len(gw.delays) = failures
            /\ \A k \in 1 .. failures : gw.delays[k] = 500 * 2 ^ (k - 1)
            /\ \A k \in 1 .. failures - 1 : gw.delays[k] < gw.delays[k + 1]
C3_Witness ==
    /\ gw.pc = "done"
    /\ gw.log = <<"throw", "throw", "ok">>
    /\ gw.resp = 200
    /\ gw.delays = <<500, 1000>>

\* C4: when the provider's synchronous response (the object, or the first
\* element of the array) has status succeeded and a url, the gateway's update
\* leaves the row completed, with that url as video_url and the render's id
\* as meta.creatomate_id; with any other synchronous status it leaves the
\* row pending. (The update is the one the database applies.)
C4_SynchronousStatus ==
    [][(gw.pc = "after" /\ gw.response = "ok" /\ gw'.pc = "done") =>
       \A in \in FinishInputs :
         (/\ in.shape # "empty"
          /\ in.dbOk
          /\ CreatomatePOST_Finish(in.shape, in.body, in.dbOk))
         => LET row == videos'[gw.video]
            IN  /\ gw'.resp = 200
                /\ (in.body.status = "succeeded" /\ in.body.url # Undefined) =>
                      /\ row.status = "completed"
                      /\ row.video_url = in.body.url
                      /\ "creatomate_id" \in DOMAIN row.meta
                      /\ row.meta["creatomate_id"] = in.body.id
                /\ in.body.status # "succeeded" => row.status = "pending"]_vars
C4_Witness ==
    /\ gw.pc = "done" /\ gw.resp = 200
    /\ wh = WhIdle
    /\ videos[gw.videoId].status = "completed"
    /\ videos[gw.videoId].video_url = "u1"
    /\ "creatomate_id" \in DOMAIN videos[gw.videoId].meta
    /\ videos[gw.videoId].meta["creatomate_id"] = "r1"


\* The update step of a delivery: the handler holds the payload's fields and
\* the videoId, and answers.
WebhookUpdateStep == WebhookStep /\ wh.pc = "update" /\ wh'.pc = "done"

\* C5: for a row V the gateway left pending, a later webhook whose metadata
\* carries videoId = V sets V's status from the provider's status: failed ->
\* failed, succeeded -> completed, any other -> pending.
C5_WebhookSetsStatus ==
    [][(/\ WebhookUpdateStep
        /\ wh'.resp = 200
        /\ wh.videoId \in DOMAIN videos)
       => videos'[wh.videoId].status =
             CASE wh.payload.status = "failed" -> "failed"
               [] wh.payload.status = "succeeded" -> "completed"
               [] OTHER -> "pending"]_vars
C5_Witness ==
    /\ gw.pc = "done" /\ gw.resp = 200
    /\ wh.pc = "done" /\ wh.resp = 200 /\ wh.videoId = gw.videoId
    /\ videos[gw.videoId].status = "failed"
    /\ "last_webhook_status" \in DOMAIN videos[gw.videoId].meta
    /\ videos[gw.videoId].meta["last_webhook_status"] = "failed"

\* The table after one whole delivery of a payload, nothing else running in
\* between and the database answering: what POST does from its first line to
\* its response.
Delivered(table, payload) ==
    LET videoId == ParsedVideoId(payload.metadata)
    IN  IF \/ payload.id = Undefined \/ payload.status = Undefined
           \/ videoId = 0 \/ videoId \notin DOMAIN table
        THEN table
        ELSE [table EXCEPT ![videoId] =
                WebhookUpdate(@, UpdateData(payload, TRUE, table[videoId].meta))]

\* C6: delivering the same payload twice in a row leaves every row (status,
\* video_url, meta) as delivering it once does.
C6_WebhookIdempotent ==
    \A payload \in Payloads :
        Delivered(Delivered(videos, payload), payload) = Delivered(videos, payload)
C6_Witness ==
    /\ DOMAIN videos # {}
    /\ wh.pc = "done" /\ wh.resp = 200 /\ wh.videoId \in DOMAIN videos
    /\ \E payload \in Payloads : Delivered(videos, payload) # videos

\* The step that answers a payload whose metadata carries no videoId.
NoVideoIdStep ==
    WebhookStep /\ wh.pc # "update" /\ wh'.pc = "done" /\ wh'.videoId = 0

\* C7 as stated: a payload whose metadata carries no videoId is always
\* answered with the acknowledgment, and no row is modified.
C7_NoVideoIdAlwaysAcknowledged ==
    [][NoVideoIdStep =>
        /\ wh'.resp = 200 /\ wh'.body = "received"
        /\ videos' = videos]_vars

\* C7, amended: a payload whose metadata carries no videoId modifies no row
\* and is never answered 500; it is answered with the acknowledgment when it
\* has an id and a status, and with 400 Invalid payload when it lacks one.
C7_NoVideoIdNeverThrows ==
    [][NoVideoIdStep =>
        /\ videos' = videos
        /\ IF wh'.valid
           THEN wh'.resp = 200 /\ wh'.body = "received"
           ELSE wh'.resp = 400 /\ wh'.body = "Invalid payload"]_vars
C7_Witness ==
    /\ DOMAIN videos # {}
    /\ wh.pc = "done" /\ wh.videoId = 0 /\ wh.valid
    /\ wh.resp = 200 /\ wh.body = "received"

\* C8: an unauthenticated call to either gateway is answered 401
\* Unauthorized at once: no row is inserted and no provider call is made.
C8_UnauthenticatedIsRejected ==
    [][/\ \A in \in StartInputs :
            (~in.auth /\ CreatomatePOST_Start(in.auth, in.variant,
                            in.templateId, in.apiKey, in.dbOk))
            => /\ gw'.pc = "done" /\ gw'.resp = 401
               /\ gw'.error.kind = "Unauthorized"
               /\ gw'.calls = 0
               /\ videos' = videos
       /\ \A propertyFound \in BOOLEAN, outcome \in HeygenOutcomes,
             dbOk \in BOOLEAN :
            HeygenPOST(FALSE, propertyFound, outcome, dbOk)
            => /\ hg'.resp = 401 /\ hg'.error = "Unauthorized"
               /\ hg'.calls = 0
               /\ videos' = videos]_vars
C8_Witness ==
    /\ gw.pc = "done" /\ gw.resp = 401 /\ gw.calls = 0
    /\ hg.resp = 401 /\ hg.calls = 0
    /\ DOMAIN videos = {}

\* C9: when every provider call of an invocation fails, the retries being
\* exhausted, the gateway answers 500 and the row it inserted is still there
\* and still pending, as inserted.
AllCallsFailed(log) ==
    /\ Len(log) = maxRetries
    /\ \A k \in 1 .. Len(log) : log[k] # "ok"
C9_ExhaustedLeavesPending ==
    (gw.pc = "done" /\ AllCallsFailed(gw.log)) =>
        /\ gw.resp = 500
        /\ gw.video \in DOMAIN videos
        /\ videos[gw.video].status = "pending"
        /\ videos[gw.video].video_url = Null
        /\ "creatomate_id" \notin DOMAIN videos[gw.video].meta
C9_Witness ==
    /\ gw.pc = "done" /\ gw.resp = 500
    /\ gw.log = <<"throw", "5xx", "throw">>
    /\ videos[gw.video].status = "pending"

\* C10: when the webhook updates a row, every key the row's meta had is kept
\* with its value, except creatomate_id, render_url and last_webhook_status,
\* which are written from the payload (a value the payload lacks leaving no
\* key); no other key appears.
FromPayload(meta, key, value) ==
    IF value = Undefined THEN key \notin DOMAIN meta
    ELSE key \in DOMAIN meta /\ meta[key] = value
C10_WebhookKeepsMeta ==
    [][(/\ WebhookUpdateStep
        /\ wh.videoId \in DOMAIN videos)
       => LET old == videos[wh.videoId].meta
              new == videos'[wh.videoId].meta
          IN  /\ \A k \in DOMAIN old \ MetaKeysOfWebhook :
                    k \in DOMAIN new /\ new[k] = old[k]
              /\ DOMAIN new \subseteq DOMAIN old \cup MetaKeysOfWebhook
              /\ (wh'.resp = 200 /\ wh.updateData.hasMeta) =>
                    /\ FromPayload(new, "creatomate_id", wh.payload.id)
                    /\ FromPayload(new, "render_url", wh.payload.url)
                    /\ FromPayload(new, "last_webhook_status", wh.payload.status)]_vars
C10_Witness ==
    /\ wh.pc = "done" /\ wh.resp = 200 /\ wh.videoId \in DOMAIN videos
    /\ LET meta == videos[wh.videoId].meta
       IN  /\ "templateId" \in DOMAIN meta /\ meta["templateId"] = "known"
           /\ "modifications" \in DOMAIN meta
           /\ "last_webhook_status" \in DOMAIN meta
           /\ "creatomate_id" \in DOMAIN meta /\ meta["creatomate_id"] = "r2"

\* The same payload with its metadata in one encoding or the other: the
\* object { videoId }, or the JSON text the gateway sends for it.
WithObject(fields, videoId) ==
    [id |-> fields.id, status |-> fields.status, url |-> fields.url,
     metadata |-> MetaObject(videoId)]
WithString(fields, videoId) ==
    [id |-> fields.id, status |-> fields.status, url |-> fields.url,
     metadata |-> MetaString(JsonStringify(videoId))]
PayloadFields ==
    [id : RenderIds \cup {Undefined}, status : ProviderStatuses \cup {Undefined},
     url : Urls \cup {Undefined}]

\* The pairs to compare: <<payload with the text, payload with the object>>.
EncodingPairs ==
    {<<WithString(fields, videoId), WithObject(fields, videoId)>> :
        fields \in PayloadFields, videoId \in VideoIdCandidates \ {0}}

\* Both encodings handled alike on a table: the same handler state and
\* response after the first part, for either answer of the select, and the
\* same table after the whole delivery.
EncodingsAgree(table) ==
    \A pair \in EncodingPairs :
        /\ \A dbOk \in BOOLEAN :
              Received(table, pair[1], dbOk) = Received(table, pair[2], dbOk)
        /\ Delivered(table, pair[1]) = Delivered(table, pair[2])

\* C11: whenever the receiver can take a delivery, a payload whose metadata
\* is the JSON text is handled as the payload with the same videoId, id,
\* status and url whose metadata is the object: the same update of the row
\* and the same response.
C11_EncodingsAgree ==
    wh.pc # "update" => EncodingsAgree(videos)
C11_Witness ==
    /\ wh.pc = "done" /\ wh.resp = 200 /\ wh.videoId \in DOMAIN videos
    /\ \E fields \in PayloadFields :
          /\ Received(videos, WithString(fields, wh.videoId), TRUE).pc = "update"
          /\ Delivered(videos, WithString(fields, wh.videoId)) # videos
          /\ Delivered(videos, WithObject(fields, wh.videoId)) # videos

\* C12: once a row's meta has a creatomate_id, no write of the gateway or
\* of the webhook receiver removes it or sets it to another value.
C12_CorrelationIdImmutable ==
    [][\A v \in DOMAIN videos :
          "creatomate_id" \in DOMAIN videos[v].meta =>
              /\ v \in DOMAIN videos'
              /\ "creatomate_id" \in DOMAIN videos'[v].meta
              /\ videos'[v].meta["creatomate_id"]
                    = videos[v].meta["creatomate_id"]]_vars

\* C13: a row is created by a gateway and stays; the table is changed only
\* by steps of a gateway or of the webhook receiver; a step of the poller
\* leaves every row's status, video_url and meta as they are.
C13_PollerOnlyReads ==
    [][/\ PollerStep => videos' = videos
       /\ videos' # videos =>
             poll' = poll /\ (gw' # gw \/ hg' # hg \/ wh' # wh)
       /\ DOMAIN videos \subseteq DOMAIN videos'
       /\ DOMAIN videos' # DOMAIN videos =>
             \/ gw.pc \in {"idle", "done"} /\ gw'.pc = "loop"
             \/ hg' # hg]_vars
C13_Witness ==
    /\ poll.mounted /\ poll.videoId \in DOMAIN videos
    /\ poll.video.id = poll.videoId
    /\ poll.status = "completed"
    /\ poll.inflight = {}
    /\ videos[poll.videoId].status = "failed"

\* A step of the Creatomate gateway alone.
GatewayStep == gw' # gw /\ UNCHANGED <<hg, wh, poll, proxy, form, tm>>

\* The modifications of the request body.
Submitted(in) == "m1"
\* The modifications the gateway sends to the provider: with a templateId,
\* the template's map applied to the request's data.
Sent(in) ==
    IF in.variant = "template" /\ in.templateId # Undefined
    THEN "applied" ELSE "m1"

\* What an invocation does to the table and answers, the modifications
\* expected in the meta of the row being those sent to the provider
\* (asSent) or those of the request body: the start
\* of an invocation inserts one row or none, pending, with those
\* modifications, and touches no other row; the rest of the invocation
\* inserts none; a success response carries the id of the row inserted.
OneRowPerInvocation(asSent) ==
    /\ \A in \in StartInputs :
          CreatomatePOST_Start(in.auth, in.variant, in.templateId,
                               in.apiKey, in.dbOk)
          => /\ \A v \in DOMAIN videos :
                    v \in DOMAIN videos' /\ videos'[v] = videos[v]
             /\ IF gw'.pc = "loop"
                THEN /\ DOMAIN videos' = DOMAIN videos \cup {gw'.video}
                     /\ gw'.video \notin DOMAIN videos
                     /\ videos'[gw'.video].status = "pending"
                     /\ "modifications" \in DOMAIN videos'[gw'.video].meta
                     /\ videos'[gw'.video].meta["modifications"]
                           = IF asSent THEN Sent(in) ELSE Submitted(in)
                ELSE DOMAIN videos' = DOMAIN videos /\ gw'.resp # 200
    /\ (GatewayStep /\ gw.pc \in {"loop", "after"}) =>
          /\ DOMAIN videos' = DOMAIN videos
          /\ gw'.video = gw.video
          /\ gw'.resp = 200 => gw'.videoId = gw.video /\ gw.video \in DOMAIN videos

\* C14 as stated: an invocation inserts at most one row, pending, with the
\* submitted modifications in its meta, and a success response carries the
\* id of that row.
C14_OneRowWithSubmittedModifications ==
    [][OneRowPerInvocation(FALSE)]_vars

\* C14, amended: an invocation inserts at most one row, pending, with the
\* modifications it sends to the provider in its meta (the submitted ones
\* for a request without templateId, the template applied to the submitted
\* data for one with), and a success response carries the id of that row.
C14_OneRowWithSentModifications ==
    [][OneRowPerInvocation(TRUE)]_vars
C14_Witness ==
    /\ gw.pc = "done" /\ gw.resp = 200 /\ gw.videoId = 2
    /\ DOMAIN videos = {1, 2}
    /\ \A v \in {1, 2} : "modifications" \in DOMAIN videos[v].meta
    /\ videos[1].meta["modifications"] = "m1"
    /\ videos[2].meta["modifications"] = "applied"

\* C15: when the provider answered ok and the update of the row fails in
\* the database, the gateway still answers success with the videoId, and
\* the row is left as inserted: pending, without creatomate_id.
C15_UpdateFailureUnhandled ==
    [][(gw.pc = "after" /\ gw.response = "ok" /\ gw'.pc = "done") =>
       \A in \in FinishInputs :
         (/\ in.shape # "empty"
          /\ ~in.dbOk
          /\ CreatomatePOST_Finish(in.shape, in.body, in.dbOk))
         => /\ gw'.resp = 200
            /\ gw'.videoId = gw.video
            /\ gw.video \in DOMAIN videos'
            /\ videos' = videos
            /\ videos'[gw.video].status = "pending"
            /\ videos'[gw.video].video_url = Null
            /\ "creatomate_id" \notin DOMAIN videos'[gw.video].meta]_vars
\* The provider has answered ok after a retry, and the step in which the
\* update fails is there to be taken, ending in the success response with
\* the row untouched.
C15_Witness ==
    /\ gw.pc = "after" /\ gw.response = "ok" /\ gw.log = <<"throw", "ok">>
    /\ gw.video \in DOMAIN videos
    /\ videos[gw.video].status = "pending"
    /\ ENABLED (/\ \E body \in Renders :
                      /\ body.status = "succeeded" /\ body.url = "u1"
                      /\ CreatomatePOST_Finish("object", body, FALSE)
                /\ gw'.resp = 200 /\ gw'.videoId = gw.video
                /\ videos' = videos)

\* C16: when every provider call of an invocation throws a transport
\* exception, the call is made maxRetries times, with the waits between,
\* and the response is 500 with the error of the last, third, exception.
AllCallsThrew(log) ==
    /\ Len(log) = maxRetries
    /\ \A k \in 1 .. Len(log) : log[k] = "throw"
C16_LastTransportErrorSurfaced ==
    (gw.pc = "done" /\ AllCallsThrew(gw.log)) =>
        /\ gw.calls = 3
        /\ gw.delays = <<500, 1000>>
        /\ gw.resp = 500
        /\ gw.error = [kind |-> "transport", attempt |-> 3]
C16_Witness ==
    /\ gw.pc = "done" /\ gw.log = <<"throw", "throw", "throw">>
    /\ gw.resp = 500 /\ gw.error.kind = "transport" /\ gw.error.attempt = 3

\* C17: given a job id, the poller's timer has the period of 3000 ms and
\* stays set for as long as the hook is mounted with that id, whatever
\* status its fetches return: no step of the poller other than the unmount
\* (or the effect for another id) clears it, a fetch started is one of the
\* current id, and once unmounted the timer is cleared and no fetch is
\* started.
C17_PollsUntilUnmounted ==
    [][PollerStep =>
        /\ poll'.interval \in {0, 3000}
        /\ (poll'.mounted /\ poll'.videoId # 0) => poll'.interval = 3000
        /\ (poll.interval > 0 /\ poll'.mounted /\ poll'.videoId = poll.videoId)
              => poll'.interval = poll.interval
        /\ \A f \in poll'.inflight \ poll.inflight :
              poll'.mounted /\ f.id = poll'.videoId
        /\ ~poll'.mounted => poll'.interval = 0
        /\ (~poll.mounted /\ ~poll'.mounted) =>
              poll'.inflight \subseteq poll.inflight]_vars
C17_Witness ==
    /\ poll.mounted /\ poll.videoId \in DOMAIN videos
    /\ poll.interval = 3000
    /\ poll.video.id = poll.videoId /\ poll.status = "completed"
    /\ \E f \in poll.inflight : f.id = poll.videoId /\ f.row.status = "failed"

\* The poller has observed a terminal status of the job it is given.
ObservedTerminal ==
    /\ poll.mounted /\ poll.videoId # 0
    /\ poll.video.id = poll.videoId
    /\ poll.status \in Terminal

\* C18 as stated: once a fetch has returned the job's row with status
\* completed or failed, the poller starts no further fetch.
C18_StopsOnTerminal ==
    [][(/\ PollerStep /\ ObservedTerminal
        /\ poll'.mounted /\ poll'.videoId = poll.videoId) =>
          poll'.inflight \subseteq poll.inflight]_vars

\* C18, amended: observing a terminal status stops nothing. While the hook
\* stays mounted with the job's id the timer is still set, and its next
\* tick starts another fetch of the row.
C18_TerminalDoesNotStop ==
    ObservedTerminal =>
        /\ poll.interval = PollIntervalMs
        /\ Cardinality(poll.inflight) < MaxPolls =>
              ENABLED (/\ useVideoStatus_Tick
                       /\ Fetch(poll.videoId) \in poll'.inflight)
C18_Witness ==
    /\ ObservedTerminal
    /\ poll.status = "failed"
    /\ poll.inflight = {}
    /\ poll.interval = 3000
    /\ videos[poll.videoId].status = "failed"

\* The statuses the handlers write, of the five the column's type has.
WrittenStatuses == {"pending", "completed", "failed"}

\* C19: in every reachable state the status of every row is pending,
\* completed or failed (never processing, never draft), and so is the
\* status the poller holds.
C19_StatusSet ==
    /\ \A v \in DOMAIN videos : videos[v].status \in WrittenStatuses
    /\ poll.status \in WrittenStatuses
    /\ \A f \in poll.inflight : f.found => f.row.status \in WrittenStatuses
C19_Witness ==
    /\ wh.pc = "done" /\ wh.resp = 200 /\ wh.videoId \in DOMAIN videos
    /\ "last_webhook_status" \in DOMAIN videos[wh.videoId].meta
    /\ videos[wh.videoId].meta["last_webhook_status"] = "rendering"
    /\ videos[wh.videoId].status = "pending"

\* C20: /api/mcp/generate answers a request without prompt, and
\* /api/gemini/design (the copy that validates, lines 57-133) a request whose
\* property details are empty, with 400, having called the backend not
\* once and forwarded nothing.
NoPrompt(answer) ==
    answer.route = "mcp" /\ answer.request.prompt \in {Undefined, ""}
NoDetails(answer) ==
    /\ answer.route = "design"
    /\ IF answer.request.wrapper
       THEN answer.request.details \in {Undefined, ""}
       ELSE /\ answer.request.raw_input \in {Undefined, ""}
            /\ answer.request.details \in {Undefined, ""}
C20_MissingFieldIsCallerError ==
    \A k \in 1 .. Len(proxy) :
        (NoPrompt(proxy[k]) \/ NoDetails(proxy[k])) =>
            /\ proxy[k].status = 400
            /\ proxy[k].calls = 0
            /\ proxy[k].forwarded = Undefined
C20_Witness ==
    /\ Len(proxy) = 2
    /\ NoPrompt(proxy[1]) /\ proxy[1].status = 400
    /\ NoDetails(proxy[2]) /\ proxy[2].status = 400 /\ ~proxy[2].request.wrapper

\* The last delivery processed named the row the gateway is about to
\* update and carried the provider status succeeded: the receiver has
\* answered it, none is in progress, and the row shows what it wrote.
SucceededWebhookProcessed ==
    /\ wh.pc = "done" /\ wh.resp = 200 /\ wh.videoId = gw.video
    /\ gw.video \in DOMAIN videos
    /\ videos[gw.video].status = "completed"
    /\ "last_webhook_status" \in DOMAIN videos[gw.video].meta
    /\ videos[gw.video].meta["last_webhook_status"] = "succeeded"

\* C21: when a webhook with status succeeded for the row V has been
\* processed before the gateway invocation that inserted V makes its
\* update, and no other webhook follows, V is completed and its meta still
\* has last_webhook_status once the invocation has finished.
C21_WebhookSurvivesGatewayUpdate ==
    [][(/\ gw.pc = "after" /\ gw'.pc = "done" /\ gw'.resp = 200
        /\ SucceededWebhookProcessed
        /\ wh' = wh)
       => /\ videos'[gw.video].status = "completed"
          /\ "last_webhook_status" \in DOMAIN videos'[gw.video].meta]_vars

\* The calls of an invocation: at most three, each with its answer in the
\* log, and an ok answer only as the last.
CallsBounded ==
    /\ gw.calls <= 3
    /\ Len(gw.log) = gw.calls
    /\ \A k \in 1 .. Len(gw.log) - 1 : gw.log[k] # "ok"

\* C22: whatever the provider's answers, an invocation makes at most 3
\* render-creation calls, none after the first ok answer, and an invocation
\* that has inserted its row ends with a response, success or error.
C22_BoundedCallsAndResponse ==
    /\ []CallsBounded
    /\ (gw.pc \in {"loop", "after"}) ~> (gw.pc = "done" /\ gw.resp \in {200, 500})
C22_Witness ==
    /\ gw.pc = "done" /\ gw.resp = 200 /\ gw.calls = 3
    /\ gw.log = <<"5xx", "4xx_error", "ok">>

\* How an invocation ends before its insert has succeeded, and with which
\* status.
EarlyEnds ==
    {"Unauthorized", "template_not_found", "missing_api_key", "db_error"}

\* C23: an invocation that has called the provider has inserted its row
\* before, and the row is pending while the calls are made; an invocation
\* ended with 401, with 404, or with 500 for the missing API key or the
\* failed insert has made no call and inserted no row.
C23_InsertBeforeCall ==
    /\ gw.calls > 0 =>
          /\ gw.video \in DOMAIN videos
          /\ gw.pc \in {"loop", "after"} => videos[gw.video].status = "pending"
    /\ (gw.pc = "done" /\ gw.error.kind \in EarlyEnds) =>
          /\ gw.calls = 0 /\ gw.log = <<>> /\ gw.video = 0
          /\ gw.resp = CASE gw.error.kind = "Unauthorized" -> 401
                          [] gw.error.kind = "template_not_found" -> 404
                          [] OTHER -> 500
C23_Witness ==
    /\ invocations = 2 /\ hg = HgIdle
    /\ gw.pc = "loop" /\ gw.calls = 2
    /\ DOMAIN videos = {1} /\ gw.video = 1
    /\ videos[1].status = "pending"

\* The failures of a HeyGen invocation that has passed the user check.
HeygenFailures ==
    {"Property not found", "transport", "HeyGen API Error",
     "No video_id returned from HeyGen", "db_error"}
\* The rows the HeyGen gateway inserted.
HeygenRows ==
    {v \in DOMAIN videos :
        /\ "template" \in DOMAIN videos[v].meta
        /\ videos[v].meta["template"] = "REAL_ESTATE_WALKTHROUGH"}

\* After a HeyGen invocation: a success has its row, pending, with the
\* provider's video_id; every failure is answered 500; every row the gateway
\* inserted has a heygen_video_id. A step of the gateway that does not end
\* in success inserts no row, and one that does inserts one.
HeygenInsertsAfterCall ==
    /\ [](/\ hg.resp = 200 =>
               /\ hg.videoId \in HeygenRows
               /\ videos[hg.videoId].status = "pending"
          /\ hg.error \in HeygenFailures => hg.resp = 500
          /\ \A v \in HeygenRows : videos[v].heygen_video_id # Null)
    /\ [][hg' # hg =>
            IF hg'.resp = 200
            THEN /\ hg'.videoId \notin DOMAIN videos
                 /\ DOMAIN videos' = DOMAIN videos \cup {hg'.videoId}
            ELSE videos' = videos]_vars

C25_VideoUrlIsRenderUrl ==
    \A v \in DOMAIN videos :
        "creatomate_id" \in DOMAIN videos[v].meta =>
            /\ "render_url" \in DOMAIN videos[v].meta
            /\ videos[v].video_url = videos[v].meta["render_url"]

\* The step that answers a payload whose metadata carries a videoId no row
\* has.
UnknownVideoIdStep ==
    /\ WebhookStep /\ wh.pc # "done" /\ wh'.pc = "done"
    /\ wh'.videoId # 0 /\ wh'.videoId \notin DOMAIN videos

\* C26 as stated: a webhook whose videoId matches no row creates no row,
\* modifies none, and is acknowledged with received.
C26_UnknownVideoIdAcknowledged ==
    [][UnknownVideoIdStep =>
        /\ videos' = videos
        /\ wh'.resp = 200 /\ wh'.body = "received"]_vars

\* C26, amended: a webhook whose videoId matches no row creates no row and
\* modifies none; with an id and a status it is acknowledged with received
\* unless the update returns an error, which is answered 500; lacking an id
\* or a status it is answered 400 Invalid payload.
C26_UnknownVideoIdWritesNothing ==
    [][UnknownVideoIdStep =>
        /\ videos' = videos
        /\ IF ~wh'.valid
           THEN wh'.resp = 400 /\ wh'.body = "Invalid payload"
           ELSE \/ wh'.resp = 200 /\ wh'.body = "received"
                \/ wh'.resp = 500 /\ wh'.body = "db_error"]_vars
C26_Witness ==
    /\ wh.pc = "done" /\ wh.valid /\ wh.resp = 200 /\ wh.body = "received"
    /\ DOMAIN videos = {1} /\ wh.videoId = 2

\* The step that takes in a payload without id or without status.
InvalidPayloadStep ==
    WebhookStep /\ wh.pc # "update" /\ ~wh'.valid

\* C27: a payload without id or without status is answered 400 Invalid
\* payload at once, whatever its metadata names: the handler holds nothing
\* read from the table, no update is to come, and no row is modified.
C27_InvalidPayloadRejectedFirst ==
    [][InvalidPayloadStep =>
        /\ wh' = [WhIdle EXCEPT !.pc = "done", !.videoId = wh'.videoId,
                                !.resp = 400, !.body = "Invalid payload"]
        /\ videos' = videos]_vars
C27_Witness ==
    /\ wh.pc = "done" /\ ~wh.valid /\ wh.resp = 400
    /\ wh.videoId = 1 /\ DOMAIN videos = {1}
    /\ videos[1].status = "pending"

\* The step in which a fetch resolves that was made for another videoId
\* than the hook's current one, or whose component has unmounted.
StaleResolveStep ==
    /\ PollerStep
    /\ \E f \in poll.inflight :
          /\ poll'.inflight = poll.inflight \ {f}
          /\ f.id # poll.videoId \/ ~poll.mounted

\* C28: the video and status the hook exposes come from a read of the row
\* with the hook's current videoId, and a fetch made for an earlier videoId,
\* or before the unmount, changes neither when it resolves.
C28_ExposedStateIsCurrent ==
    /\ [](poll.mounted /\ poll.video.id # 0 => poll.video.id = poll.videoId)
    /\ [][StaleResolveStep =>
            poll'.video = poll.video /\ poll'.status = poll.status]_vars

\* The step in which handleGenerate starts a submission.
SubmissionStarts ==
    form'.submissions = form.submissions + 1

\* C29: a submission starts only at step 3, with confirmed true, both media
\* urls present, and no other submission of the form in flight.
C29_SubmissionOnlyWhenReady ==
    [][SubmissionStarts =>
        /\ form.step = 3
        /\ form.confirmed
        /\ MediaKeys \subseteq DOMAIN form.mediaUrls
        /\ ~form.generating
        /\ form.submissions = 0]_vars
C29_Witness ==
    /\ form.step = 3 /\ form.generating /\ form.submissions = 1
    /\ ~form.confirmed
    /\ form.uploads["mainVideo"] = 1

\* The value the data has at a path of keys: by own keys, object after
\* object, undefined where the path leaves the data.
RECURSIVE ValueAt(_, _)
ValueAt(obj, keys) ==
    IF keys = <<>> THEN obj
    ELSE IF obj.t = "object" /\ Head(keys) \in DOMAIN obj.o
    THEN ValueAt(obj.o[Head(keys)], Tail(keys))
    ELSE JsUndefined

\* A string's pieces with every placeholder replaced by the value at its
\* path, by nothing when that is undefined or null.
RECURSIVE Expected(_, _)
Expected(pieces, data) ==
    IF pieces = <<>> THEN <<>>
    ELSE LET piece == Head(pieces)
             val == ValueAt(data, piece.keys)
         IN  (CASE piece.kind = "text" -> piece.chars
                [] piece.kind # "text" /\ val.t \in {"undefined", "null"} -> <<>>
                [] OTHER -> StringOf(val))
             \o Expected(Tail(pieces), data)

\* C30: applyTemplate returns a map with exactly the template's keys; a
\* value that is not a string is the template's, and a string is the
\* template's with every placeholder replaced by the value at its path, or
\* by the empty string when that is missing, undefined or null.
C30_ApplyTemplate ==
    tm.pc = "returned" =>
        /\ DOMAIN tm.result = DOMAIN tm.source
        /\ \A key \in DOMAIN tm.source :
              IF tm.source[key].string
              THEN tm.result[key] =
                       Str(Expected(tm.source[key].pieces, tm.data))
              ELSE tm.result[key] = tm.source[key].value
C30_Witness ==
    /\ tm.pc = "returned"
    /\ DOMAIN tm.source = {"k1", "k2"}
    /\ tm.source["k1"].string
    /\ tm.source["k1"].pieces =
          <<Placeholder(<<(<<"a">>), (<<"b">>)>>), Placeholder(<<(<<"c">>)>>)>>
    /\ ~tm.source["k2"].string
    /\ tm.result["k1"] = Str(<<"w">>)
    /\ tm.result["k2"].t = "number"

=============================================================================
